---- MODULE Spec2Model ----
(***************************************************************************)
(* The workshop browser of assets/js/app.js: a manifest of modules is      *)
(* fetched once, sorted and rendered on two list surfaces; one module at   *)
(* a time is shown in a frame; the selection is mirrored in the `module`   *)
(* query parameter and the session history; a sidebar opens and closes.    *)
(*                                                                         *)
(* JavaScript runs every handler to completion, so each handler is one     *)
(* action.  A handler is written as a function from the record of the      *)
(* mutable state (Cur) to the record after it, composed as the code        *)
(* composes its calls.                                                     *)
(***************************************************************************)
EXTENDS Integers, Sequences, FiniteSets, TLC

VARIABLES
    pc,             \* "start" | "fetching" | "ready": where init() stands
    served,         \* what the server answers to the manifest request
    workshopListEl, \* TRUE iff the page has #workshopList
    sidebarListEl,  \* TRUE iff the page has #sidebarList
    modules,        \* state.modules
    activeId,       \* state.activeId
    sidebarOpen,    \* state.sidebarOpen
    bodyClass,      \* document.body.classList
    viewerHidden,   \* viewerSection.hidden
    frameSrc,       \* frameEl's src attribute, NULL when absent
    ariaExpanded,   \* sidebarToggleBtn's aria-expanded, NULL when absent
    ariaHidden,     \* viewerSidebar's aria-hidden, NULL when absent
    workshopList,   \* the nodes of #workshopList, in document order
    sidebarList,    \* the nodes of #sidebarList, in document order
    errors,         \* the .error-state elements appended so far
    history,        \* the session history entries of this document
    idx,            \* the index of the current entry; location = its url
    listeners,      \* the listeners init() has registered
    fetches,        \* how many times fetch(manifestPath) was called
    trace,          \* the steps init() has run, in order
    ran,            \* which of loadModule / showSummary the last handler completed
    last,           \* the event handled last
    rt              \* monitor: a push followed by Back and then Forward

vars == <<pc, served, workshopListEl, sidebarListEl, modules, activeId,
          sidebarOpen, bodyClass, viewerHidden, frameSrc, ariaExpanded,
          ariaHidden, workshopList, sidebarList, errors, history, idx,
          listeners, fetches, trace, ran, last, rt>>

----------------------------------------------------------------------------
(* Bounds *)

MaxModules == 2     \* longest manifest of the navigation specifications
MaxHistory == 3     \* longest session history
MaxSortLen == 3     \* longest manifest of the sorting specification
MaxTitleLen == 7    \* longest title over the characters of the separator
MaxEscapeLen == 3   \* longest title over the characters escapeHtml replaces

----------------------------------------------------------------------------
(* Values *)

NULL == "<null>"            \* JavaScript null
Undefined == "<undefined>"  \* an absent field of a manifest record

Ids == {"a", "b", "c"}              \* module ids of the navigation manifests
SortIds == <<"a", "b", "c", "d">>   \* module ids of the sorting manifests
ParamValues == {"a", "z", ""}       \* values of ?module= a page is opened with

NoOrder == [defined |-> FALSE, value |-> 0]
Order(n) == [defined |-> TRUE, value |-> n]

PathOf(id) == CASE id = "a" -> "course/a.html"
                [] id = "b" -> "course/b.html"
                [] id = "c" -> "course/c.html"
                [] OTHER    -> "course/d.html"

\* the navigation manifests give "a" the title that sorts last, so that a
\* manifest listing "a" first is reordered by the sort
NavModule(id) ==
    [id |-> id, title |-> IF id = "a" THEN "B" ELSE "a", order |-> NoOrder,
     path |-> PathOf(id)]

UniqueIds(ms) == \A i, j \in DOMAIN ms : i # j => ms[i].id # ms[j].id

Manifests(recs, n) ==
    {ms \in UNION {[1..k -> recs] : k \in 1..n} : UniqueIds(ms)}

NavManifests == Manifests({NavModule(id) : id \in Ids}, MaxModules)

\* the sorting manifests name their modules by manifest position, so that
\* the place a module came from can be read off the sorted list
SortAttrs == [title : {Undefined, "", "a", "B"}, order : {NoOrder, Order(1), Order(2)}]

SortManifest(k, at) ==
    [i \in 1..k |-> [id |-> SortIds[i], title |-> at[i].title,
                     order |-> at[i].order, path |-> PathOf(SortIds[i])]]

\* fetch() rejects; or the response has a status and a body
Rejected == [kind |-> "reject", status |-> 0, json |-> "none", items |-> <<>>]
Http(status, json, items) ==
    [kind |-> "http", status |-> status, json |-> json, items |-> items]

FailedResponses ==
    {Rejected, Http(404, "array", <<>>), Http(200, "invalid", <<>>),
     Http(200, "object", <<>>), Http(200, "array", <<>>)}

NavResponses == FailedResponses \cup {Http(200, "array", m) : m \in NavManifests}

Param(k, v) == [k |-> k, v |-> v]

InitialQueries ==
    {<<>>, <<Param("lang", "en")>>}
    \cup {<<Param("module", v)>> : v \in ParamValues}
    \cup {<<Param("lang", "en"), Param("module", "b")>>,
          <<Param("module", "a"), Param("module", "z")>>}

InitialUrls == {[pathname |-> "/index.html", query |-> q] : q \in InitialQueries}

NoState == [kind |-> "null", moduleId |-> NULL]             \* history.state of a loaded page
ModuleState(id) == [kind |-> "module", moduleId |-> id]     \* { moduleId: id }
EmptyState == [kind |-> "empty", moduleId |-> NULL]         \* {}

----------------------------------------------------------------------------
(* The page: app.js lines 3-9 look the elements up once.  Either list      *)
(* surface may be missing from a page; the viewer, the frame and the       *)
(* sidebar controls are part of the two-surface page.                      *)

viewerSection == TRUE
sidebarToggleBtn == TRUE
viewerSidebar == TRUE
closeSidebarBtn == TRUE
frameEl == TRUE

----------------------------------------------------------------------------
(* URLSearchParams, on the decoded list of name/value pairs *)

SearchHas(q, name) == \E i \in DOMAIN q : q[i].k = name

FirstIndex(q, name) ==
    CHOOSE i \in DOMAIN q : q[i].k = name /\ \A j \in 1..(i - 1) : q[j].k # name

SearchGet(q, name) == IF SearchHas(q, name) THEN q[FirstIndex(q, name)].v ELSE NULL

SearchDelete(q, name) == SelectSeq(q, LAMBDA p : p.k # name)

\* a faulty set: the pair is appended, as searchParams.append does
SearchSet_Append(q, name, value) == Append(q, Param(name, value))

SearchSet(q, name, value) ==
    IF SearchHas(q, name)
    THEN LET f == FirstIndex(q, name)
         IN  SubSeq(q, 1, f - 1) \o <<Param(name, value)>>
             \o SearchDelete(SubSeq(q, f + 1, Len(q)), name)
    ELSE Append(q, Param(name, value))

\* String(open)
BoolString(b) == IF b THEN "true" ELSE "false"

\* JavaScript truthiness of a string or null
Truthy(v) == v # NULL /\ v # Undefined /\ v # ""

----------------------------------------------------------------------------
(* The mutable state as one record, and its write-back *)

Idle == [op |-> "none", id |-> NULL]
Ran(op, id) == [op |-> op, id |-> id]

\* the state a handler starts from
Cur ==
    [modules |-> modules, activeId |-> activeId, sidebarOpen |-> sidebarOpen,
     bodyClass |-> bodyClass, viewerHidden |-> viewerHidden,
     frameSrc |-> frameSrc, ariaExpanded |-> ariaExpanded,
     ariaHidden |-> ariaHidden, workshopList |-> workshopList,
     sidebarList |-> sidebarList, errors |-> errors, history |-> history,
     idx |-> idx, listeners |-> listeners, trace |-> trace, ran |-> Idle]

Commit(n) ==
    /\ modules' = n.modules
    /\ activeId' = n.activeId
    /\ sidebarOpen' = n.sidebarOpen
    /\ bodyClass' = n.bodyClass
    /\ viewerHidden' = n.viewerHidden
    /\ frameSrc' = n.frameSrc
    /\ ariaExpanded' = n.ariaExpanded
    /\ ariaHidden' = n.ariaHidden
    /\ workshopList' = n.workshopList
    /\ sidebarList' = n.sidebarList
    /\ errors' = n.errors
    /\ history' = n.history
    /\ idx' = n.idx
    /\ listeners' = n.listeners
    /\ trace' = n.trace
    /\ ran' = n.ran

\* window.location, as the current session history entry's url
Location(s) == s.history[s.idx].url

\* window.history.pushState(state, "", url): entries after the current one are dropped
PushState(s, state, url) ==
    [s EXCEPT !.history = Append(SubSeq(@, 1, s.idx), [url |-> url, state |-> state]),
              !.idx = @ + 1]

----------------------------------------------------------------------------
(* fetchManifest and sortModules *)

StatusMessage(status) ==
    CASE status = 404 -> "Manifest loading failed (404)"
      [] status = 500 -> "Manifest loading failed (500)"
      [] OTHER        -> "Manifest loading failed"

\* a faulty fetchManifest: an empty array is returned as it is
fetchManifest_AcceptEmpty(resp) ==
    IF resp.kind = "reject"
    THEN [threw |-> TRUE, message |-> "Failed to fetch", data |-> <<>>]
    ELSE IF ~(resp.status >= 200 /\ resp.status <= 299)
    THEN [threw |-> TRUE, message |-> StatusMessage(resp.status), data |-> <<>>]
    ELSE IF resp.json = "invalid"
    THEN [threw |-> TRUE, message |-> "Unexpected end of JSON input", data |-> <<>>]
    ELSE IF resp.json # "array"
    THEN [threw |-> TRUE,
          message |-> "No workshops found. Add HTML exports to the course directory.",
          data |-> <<>>]
    ELSE [threw |-> FALSE, message |-> "", data |-> resp.items]

\* the value fetchManifest returns, or the message of the error it throws
fetchManifest(resp) ==
    IF resp.kind = "reject"
    THEN [threw |-> TRUE, message |-> "Failed to fetch", data |-> <<>>]
    ELSE IF ~(resp.status >= 200 /\ resp.status <= 299)
    THEN [threw |-> TRUE, message |-> StatusMessage(resp.status), data |-> <<>>]
    ELSE IF resp.json = "invalid"
    THEN [threw |-> TRUE, message |-> "Unexpected end of JSON input", data |-> <<>>]
    ELSE IF resp.json # "array" \/ Len(resp.items) = 0
    THEN [threw |-> TRUE,
          message |-> "No workshops found. Add HTML exports to the course directory.",
          data |-> <<>>]
    ELSE [threw |-> FALSE, message |-> "", data |-> resp.items]

\* the collation rank localeCompare orders the titles by: case is a
\* tie-breaker there, so "a" sorts before "B" (code units order "B" first)
LocaleRank(t) == CASE t = ""  -> 0
                   [] t = "a" -> 1
                   [] t = "B" -> 2
                   [] OTHER   -> 3

LocaleCompare(x, y) ==
    IF LocaleRank(x) < LocaleRank(y) THEN -1
    ELSE IF LocaleRank(x) > LocaleRank(y) THEN 1 ELSE 0

\* typeof m.order === "number" ? m.order : Number.POSITIVE_INFINITY
OrderKey(m) ==
    IF m.order.defined THEN [inf |-> FALSE, n |-> m.order.value]
    ELSE [inf |-> TRUE, n |-> 0]

\* m.title || ""
TitleKey(m) == IF Truthy(m.title) THEN m.title ELSE ""

\* a faulty comparator: a missing order counts as 0
CompareModules_MissingAsZero(a, b) ==
    LET orderA == IF a.order.defined THEN a.order.value ELSE 0
        orderB == IF b.order.defined THEN b.order.value ELSE 0
    IN  IF orderA = orderB THEN LocaleCompare(TitleKey(a), TitleKey(b))
        ELSE orderA - orderB

\* the comparator of sortModules
CompareModules(a, b) ==
    LET orderA == OrderKey(a)
        orderB == OrderKey(b)
    IN  IF orderA = orderB THEN LocaleCompare(TitleKey(a), TitleKey(b))
        ELSE IF orderA.inf THEN 1
        ELSE IF orderB.inf THEN -1
        ELSE orderA.n - orderB.n

\* Array.prototype.sort is stable: an element goes after every element
\* already placed that does not compare greater than it
InsertStable(sorted, m) ==
    LET after == {i \in DOMAIN sorted : CompareModules(sorted[i], m) > 0}
        at == IF after = {} THEN Len(sorted) + 1
              ELSE CHOOSE i \in after : \A j \in after : i <= j
    IN  SubSeq(sorted, 1, at - 1) \o <<m>> \o SubSeq(sorted, at, Len(sorted))

RECURSIVE SortFrom(_, _)
SortFrom(sorted, rest) ==
    IF rest = <<>> THEN sorted
    ELSE SortFrom(InsertStable(sorted, Head(rest)), Tail(rest))

sortModules(ms) == SortFrom(<<>>, ms)

----------------------------------------------------------------------------
(* Rendering *)

WorkshopNode(m) ==
    [moduleId |-> m.id, className |-> "workshop-link",
     isActive |-> FALSE, ariaCurrent |-> FALSE]

SidebarNode(m) ==
    [moduleId |-> m.id, className |-> "sidebar-button",
     isActive |-> FALSE, ariaCurrent |-> FALSE]

renderWorkshopList(s, ms) ==
    IF ~workshopListEl THEN s
    ELSE [s EXCEPT !.workshopList = [i \in DOMAIN ms |-> WorkshopNode(ms[i])]]

renderSidebarList(s, ms) ==
    IF ~sidebarListEl THEN s
    ELSE [s EXCEPT !.sidebarList = [i \in DOMAIN ms |-> SidebarNode(ms[i])]]

displayError(s, message) ==
    [s EXCEPT !.errors = Append(@, [target |-> IF workshopListEl THEN "parent" ELSE "body",
                                    text |-> message])]

----------------------------------------------------------------------------
(* Selection, viewer and sidebar *)

\* a faulty setSidebarOpen: aria-hidden is given the value of aria-expanded
setSidebarOpen_AriaHiddenSame(s, open) ==
    [s EXCEPT !.sidebarOpen = open,
              !.bodyClass = IF open THEN @ \cup {"sidebar-open"} ELSE @ \ {"sidebar-open"},
              !.ariaExpanded = IF sidebarToggleBtn THEN BoolString(open) ELSE @,
              !.ariaHidden = IF viewerSidebar THEN BoolString(open) ELSE @]

setSidebarOpen(s, open) ==
    [s EXCEPT !.sidebarOpen = open,
              !.bodyClass = IF open THEN @ \cup {"sidebar-open"} ELSE @ \ {"sidebar-open"},
              !.ariaExpanded = IF sidebarToggleBtn THEN BoolString(open) ELSE @,
              !.ariaHidden = IF viewerSidebar THEN BoolString(~open) ELSE @]

\* a faulty showViewer: the sidebar is left as it is
showViewer_KeepSidebar(s) ==
    IF ~viewerSection THEN s
    ELSE [s EXCEPT !.viewerHidden = FALSE,
                   !.bodyClass = @ \cup {"viewer-active"}]

showViewer(s) ==
    IF ~viewerSection THEN s
    ELSE setSidebarOpen([s EXCEPT !.viewerHidden = FALSE,
                                  !.bodyClass = @ \cup {"viewer-active"}], FALSE)

\* a faulty marking: aria-current is set on the nodes of both surfaces
MarkNode_AriaEverywhere(node, id) ==
    LET isActive == node.moduleId = id
    IN  [node EXCEPT !.isActive = isActive, !.ariaCurrent = isActive]

MarkNode(node, id) ==
    LET isActive == node.moduleId = id
    IN  [node EXCEPT !.isActive = isActive,
                     !.ariaCurrent = IF node.className = "sidebar-button"
                                     THEN isActive ELSE @]

updateActiveUI(s, id) ==
    [s EXCEPT !.workshopList = [i \in DOMAIN @ |-> MarkNode(@[i], id)],
              !.sidebarList = [i \in DOMAIN @ |-> MarkNode(@[i], id)]]

hasModule(s, moduleId) == \E i \in DOMAIN s.modules : s.modules[i].id = moduleId

\* state.modules.find(...): the place of the first module with the id, 0 if none
FindModule(s, moduleId) ==
    LET found == {i \in DOMAIN s.modules : s.modules[i].id = moduleId}
    IN  IF found = {} THEN 0 ELSE CHOOSE i \in found : \A j \in found : i <= j

\* loadModule from line 141 on, for the module it found
LoadFound(s, module, pushState) ==
    LET s1 == [s EXCEPT !.activeId = module.id,
                        !.ran = Ran("loadModule", module.id)]
        s2 == updateActiveUI(showViewer(s1), module.id)
        s3 == IF frameEl /\ s2.frameSrc # module.path
              THEN [s2 EXCEPT !.frameSrc = module.path] ELSE s2
        url == Location(s3)
        nextUrl == [pathname |-> url.pathname,
                    query |-> SearchSet(url.query, "module", module.id)]
    IN  IF pushState THEN PushState(s3, ModuleState(module.id), nextUrl) ELSE s3

\* a faulty loadModule: the selection is written before the lookup
loadModule_AssignFirst(s, moduleId, pushState) ==
    IF FindModule(s, moduleId) = 0 THEN [s EXCEPT !.activeId = moduleId]
    ELSE LoadFound(s, s.modules[FindModule(s, moduleId)], pushState)

\* a faulty loadModule: the viewer is shown before the lookup
loadModule_ShowFirst(s, moduleId, pushState) ==
    IF FindModule(s, moduleId) = 0 THEN showViewer(s)
    ELSE LoadFound(s, s.modules[FindModule(s, moduleId)], pushState)

\* a faulty loadModule: no history entry is ever pushed
loadModule_NeverPush(s, moduleId, pushState) ==
    IF FindModule(s, moduleId) = 0 THEN s
    ELSE LoadFound(s, s.modules[FindModule(s, moduleId)], FALSE)

\* loadModule of the single-surface variant: the active module is not loaded again
loadModule_SkipActive(s, moduleId, pushState) ==
    IF FindModule(s, moduleId) = 0 \/ s.activeId = moduleId THEN s
    ELSE LoadFound(s, s.modules[FindModule(s, moduleId)], pushState)

loadModule(s, moduleId, pushState) ==
    IF FindModule(s, moduleId) = 0 THEN s
    ELSE LoadFound(s, s.modules[FindModule(s, moduleId)], pushState)

\* showSummary up to line 216: the selection, the viewer, the frame and the marking
ClearSelection(s) ==
    LET s1 == [s EXCEPT !.activeId = NULL,
                        !.bodyClass = @ \ {"viewer-active", "sidebar-open"},
                        !.ran = Ran("showSummary", NULL)]
        s2 == setSidebarOpen(s1, FALSE)
        s3 == IF viewerSection THEN [s2 EXCEPT !.viewerHidden = TRUE] ELSE s2
        s4 == IF frameEl THEN [s3 EXCEPT !.frameSrc = NULL] ELSE s3
    IN  updateActiveUI(s4, "")

\* showSummary from line 218 on
PushSummary(s, pushState) ==
    LET url == Location(s)
        nextUrl == [pathname |-> url.pathname,
                    query |-> SearchDelete(url.query, "module")]
    IN  IF pushState /\ SearchHas(url.query, "module")
        THEN PushState(s, EmptyState, nextUrl) ELSE s

\* a faulty showSummary: the selection is cleared to "", as the marking is
showSummary_EmptyId(s, pushState) ==
    PushSummary([ClearSelection(s) EXCEPT !.activeId = ""], pushState)

\* a faulty showSummary: the entry pushed keeps the `module` parameter
showSummary_KeepParam(s, pushState) ==
    LET s5 == ClearSelection(s)
    IN  IF pushState /\ SearchHas(Location(s5).query, "module")
        THEN PushState(s5, EmptyState, Location(s5)) ELSE s5

\* a faulty showSummary: the frame keeps its src
showSummary_KeepFrame(s, pushState) ==
    PushSummary([ClearSelection(s) EXCEPT !.frameSrc = s.frameSrc], pushState)

\* a faulty showSummary: the entry is pushed whatever the URL holds
showSummary_AlwaysPush(s, pushState) ==
    LET s5 == ClearSelection(s)
        url == Location(s5)
        nextUrl == [pathname |-> url.pathname,
                    query |-> SearchDelete(url.query, "module")]
    IN  IF pushState THEN PushState(s5, EmptyState, nextUrl) ELSE s5

showSummary(s, pushState) == PushSummary(ClearSelection(s), pushState)

\* a faulty applyLocation: loadModule is left to its default, pushState = true
applyLocation_Push(s, pushState) ==
    LET moduleId == SearchGet(Location(s).query, "module")
    IN  IF Truthy(moduleId) /\ hasModule(s, moduleId)
        THEN loadModule(s, moduleId, TRUE)
        ELSE showSummary(s, FALSE)

applyLocation(s, pushState) ==
    LET moduleId == SearchGet(Location(s).query, "module")
    IN  IF Truthy(moduleId) /\ hasModule(s, moduleId)
        THEN loadModule(s, moduleId, pushState)
        ELSE showSummary(s, FALSE)

\* a faulty handleKeyDown: leaving the viewer is tried before closing the sidebar
handleKeyDown_ViewerFirst(s, key) ==
    IF key # "Escape" THEN s
    ELSE IF "viewer-active" \in s.bodyClass THEN showSummary(s, TRUE)
    ELSE IF s.sidebarOpen THEN setSidebarOpen(s, FALSE)
    ELSE s

\* a faulty handleKeyDown: no return after closing the sidebar
handleKeyDown_FallThrough(s, key) ==
    IF key # "Escape" THEN s
    ELSE LET s1 == IF s.sidebarOpen THEN setSidebarOpen(s, FALSE) ELSE s
         IN  IF "viewer-active" \in s1.bodyClass THEN showSummary(s1, TRUE) ELSE s1

handleKeyDown(s, key) ==
    IF key # "Escape" THEN s
    ELSE IF s.sidebarOpen THEN setSidebarOpen(s, FALSE)
    ELSE IF "viewer-active" \in s.bodyClass THEN showSummary(s, TRUE)
    ELSE s

----------------------------------------------------------------------------
(* init(), from the point where the manifest request settles *)

Did(s, step) == [s EXCEPT !.trace = Append(@, step)]

InitListeners ==
    (IF sidebarToggleBtn THEN {"toggle"} ELSE {})
    \cup (IF closeSidebarBtn THEN {"close"} ELSE {})
    \cup {"keydown", "popstate"}

\* a faulty init: the location is applied before the lists are rendered
init_ApplyBeforeRender(s, resp) ==
    LET r == fetchManifest(resp)
        t1 == Did([s EXCEPT !.modules = sortModules(r.data)], "sortModules")
        t2 == Did(applyLocation(t1, FALSE), "applyLocation")
        t3 == Did(renderWorkshopList(t2, t2.modules), "renderWorkshopList")
        t4 == Did(renderSidebarList(t3, t3.modules), "renderSidebarList")
        c1 == Did(displayError(s, r.message), "displayError")
        u1 == IF r.threw THEN c1 ELSE t4
        u2 == Did([u1 EXCEPT !.listeners = @ \cup InitListeners], "addEventListener")
    IN  Did(setSidebarOpen(u2, FALSE), "setSidebarOpen")

init(s, resp) ==
    LET r == fetchManifest(resp)
        t1 == Did([s EXCEPT !.modules = sortModules(r.data)], "sortModules")
        t2 == Did(renderWorkshopList(t1, t1.modules), "renderWorkshopList")
        t3 == Did(renderSidebarList(t2, t2.modules), "renderSidebarList")
        t4 == Did(applyLocation(t3, FALSE), "applyLocation")
        c1 == Did(displayError(s, r.message), "displayError")
        u1 == IF r.threw THEN c1 ELSE t4
        u2 == Did([u1 EXCEPT !.listeners = @ \cup InitListeners], "addEventListener")
    IN  Did(setSidebarOpen(u2, FALSE), "setSidebarOpen")

----------------------------------------------------------------------------
(* The state after the script has been evaluated, before DOMContentLoaded *)

NoEvent == [ev |-> "none", arg |-> ""]
NoRt == [phase |-> 0, kind |-> "none", p |-> NULL, x |-> NULL]

InitPage(urls, surfaces) ==
    /\ pc = "start"
    /\ workshopListEl \in surfaces
    /\ sidebarListEl \in surfaces
    /\ modules = <<>>
    /\ activeId = NULL
    /\ sidebarOpen = FALSE
    /\ bodyClass = {}
    /\ viewerHidden \in BOOLEAN
    /\ frameSrc = NULL
    /\ ariaExpanded = NULL
    /\ ariaHidden = NULL
    /\ workshopList = <<>>
    /\ sidebarList = <<>>
    /\ errors = <<>>
    /\ history \in {<<[url |-> u, state |-> NoState]>> : u \in urls}
    /\ idx = 1
    /\ listeners = {}
    /\ fetches = 0
    /\ trace = <<>>
    /\ ran = Idle
    /\ last = NoEvent
    /\ rt = NoRt

Init ==
    /\ served \in NavResponses
    /\ InitPage(InitialUrls, BOOLEAN)

----------------------------------------------------------------------------
(* Events.  Each runs the listeners registered for it, to completion.      *)

Event(ev, arg) == last' = [ev |-> ev, arg |-> arg]

Fits(n) == Len(n.history) <= MaxHistory

\* document DOMContentLoaded: init() runs up to its await
DOMContentLoaded ==
    /\ pc = "start"
    /\ pc' = "fetching"
    /\ fetches' = fetches + 1
    /\ Commit(Cur)
    /\ Event("DOMContentLoaded", "")
    /\ rt' = NoRt
    /\ UNCHANGED <<served, workshopListEl, sidebarListEl>>

\* the manifest request settles: init() runs to its end
FetchSettled ==
    /\ pc = "fetching"
    /\ pc' = "ready"
    /\ Commit(init(Cur, served))
    /\ Event("settled", "")
    /\ rt' = NoRt
    /\ UNCHANGED <<served, workshopListEl, sidebarListEl, fetches>>

\* click on the i-th button of #workshopList
ClickWorkshop(i) ==
    LET id == workshopList[i].moduleId
        n == loadModule(Cur, id, TRUE)
    IN  /\ Fits(n)
        /\ Commit(n)
        /\ Event("workshop", id)
        /\ rt' = [phase |-> 1, kind |-> "load", p |-> activeId, x |-> id]
        /\ UNCHANGED <<pc, served, workshopListEl, sidebarListEl, fetches>>

\* click on the i-th button of #sidebarList
ClickSidebar(i) ==
    LET id == sidebarList[i].moduleId
        n == setSidebarOpen(loadModule(Cur, id, TRUE), FALSE)
    IN  /\ Fits(n)
        /\ Commit(n)
        /\ Event("sidebar", id)
        /\ rt' = [phase |-> 1, kind |-> "load", p |-> activeId, x |-> id]
        /\ UNCHANGED <<pc, served, workshopListEl, sidebarListEl, fetches>>

\* click on #sidebarToggle
ClickToggle ==
    LET n == IF "toggle" \in listeners THEN setSidebarOpen(Cur, ~sidebarOpen) ELSE Cur
    IN  /\ sidebarToggleBtn
        /\ Commit(n)
        /\ Event("toggle", "")
        /\ rt' = NoRt
        /\ UNCHANGED <<pc, served, workshopListEl, sidebarListEl, fetches>>

\* click on #closeSidebar
ClickClose ==
    LET n == IF "close" \in listeners THEN setSidebarOpen(Cur, FALSE) ELSE Cur
    IN  /\ closeSidebarBtn
        /\ Commit(n)
        /\ Event("close", "")
        /\ rt' = NoRt
        /\ UNCHANGED <<pc, served, workshopListEl, sidebarListEl, fetches>>

\* document keydown
KeyDown(key) ==
    LET n == IF "keydown" \in listeners THEN handleKeyDown(Cur, key) ELSE Cur
    IN  /\ Fits(n)
        /\ Commit(n)
        /\ Event("keydown", key)
        /\ rt' = IF n.history # history \/ n.idx # idx
                 THEN [phase |-> 1, kind |-> "escape", p |-> activeId, x |-> NULL]
                 ELSE NoRt
        /\ UNCHANGED <<pc, served, workshopListEl, sidebarListEl, fetches>>

\* the browser moves by delta in the session history, then fires popstate
Traverse(delta) ==
    LET moved == [Cur EXCEPT !.idx = @ + delta]
        n == IF "popstate" \in listeners THEN applyLocation(moved, FALSE) ELSE moved
    IN  /\ idx + delta \in DOMAIN history
        /\ Commit(n)
        /\ UNCHANGED <<pc, served, workshopListEl, sidebarListEl, fetches>>

Back ==
    /\ Traverse(-1)
    /\ Event("back", "")
    /\ rt' = IF rt.phase = 1 THEN [rt EXCEPT !.phase = 2] ELSE NoRt

Forward ==
    /\ Traverse(1)
    /\ Event("forward", "")
    /\ rt' = IF rt.phase = 2 THEN [rt EXCEPT !.phase = 3] ELSE NoRt

Next ==
    \/ DOMContentLoaded
    \/ FetchSettled
    \/ \E i \in DOMAIN workshopList : ClickWorkshop(i)
    \/ \E i \in DOMAIN sidebarList : ClickSidebar(i)
    \/ ClickToggle
    \/ ClickClose
    \/ \E key \in {"Escape", "Enter"} : KeyDown(key)
    \/ Back
    \/ Forward

Spec == Init /\ [][Next]_vars

----------------------------------------------------------------------------
(* loadModule as a function any caller may use: beside the events, it is   *)
(* called with any id and either value of pushState                        *)

CallLoadModule(id, pushState) ==
    LET n == loadModule(Cur, id, pushState)
    IN  /\ Fits(n)
        /\ Commit(n)
        /\ Event(IF pushState THEN "loadModule" ELSE "loadModuleNoPush", id)
        /\ rt' = NoRt
        /\ UNCHANGED <<pc, served, workshopListEl, sidebarListEl, fetches>>

ApiUrls ==
    {[pathname |-> "/index.html", query |-> q] :
        q \in {<<>>, <<Param("lang", "en")>>, <<Param("module", "a")>>,
               <<Param("module", "z")>>}}

ApiInit ==
    /\ served \in {Http(200, "array", m) :
                      m \in Manifests({NavModule(id) : id \in {"a", "b"}}, MaxModules)}
    /\ InitPage(ApiUrls, {TRUE})

ApiNext ==
    \/ Next
    \/ \E id \in {"a", "b", "z"}, pushState \in BOOLEAN : CallLoadModule(id, pushState)

ApiSpec == ApiInit /\ [][ApiNext]_vars

----------------------------------------------------------------------------
(* Page load alone, over manifests that differ in order and title *)

SortUrls == {[pathname |-> "/index.html", query |-> <<Param("module", "b")>>]}

SortInit ==
    /\ \E k \in 1..MaxSortLen : \E at \in [1..k -> SortAttrs] :
          served = Http(200, "array", SortManifest(k, at))
    /\ InitPage(SortUrls, {TRUE})

SortNext ==
    \/ DOMContentLoaded
    \/ FetchSettled

SortSpec == SortInit /\ [][SortNext]_vars

----------------------------------------------------------------------------
(* Text.  A JavaScript string is the sequence of its characters; the two   *)
(* texts the code holds as literals are kept as one piece each.  A value   *)
(* read from a manifest field is a string or, the field missing, undefined *)

Str(cs) == [type |-> "string", chars |-> cs]
Absent == [type |-> "undefined", chars |-> <<>>]
TruthyText(v) == v.type = "string" /\ v.chars # <<>>

FALLBACK_SUMMARY ==
    <<"Open the workshop to explore the walkthrough, examples, and practice material.">>
FocusPrefix == <<"Focus: ">>
Separator == <<" ", "-", " ">>

StartsWith(cs, i, sep) ==
    /\ i + Len(sep) - 1 <= Len(cs)
    /\ SubSeq(cs, i, i + Len(sep) - 1) = sep

RECURSIVE SplitFrom(_, _, _, _)
\* the pieces of cs from position `from` on, the scan standing at i
SplitFrom(cs, sep, from, i) ==
    IF i > Len(cs) THEN <<SubSeq(cs, from, Len(cs))>>
    ELSE IF StartsWith(cs, i, sep)
    THEN <<SubSeq(cs, from, i - 1)>> \o SplitFrom(cs, sep, i + Len(sep), i + Len(sep))
    ELSE SplitFrom(cs, sep, from, i + 1)

\* String.prototype.split with a non-empty separator
Split(cs, sep) == SplitFrom(cs, sep, 1, 1)

\* const [, subtitle] = pieces
Second(pieces) == IF Len(pieces) >= 2 THEN Str(pieces[2]) ELSE Absent

RECURSIVE TrimStart(_)
TrimStart(cs) == IF cs # <<>> /\ Head(cs) = " " THEN TrimStart(Tail(cs)) ELSE cs

RECURSIVE TrimEnd(_)
TrimEnd(cs) ==
    IF cs # <<>> /\ cs[Len(cs)] = " " THEN TrimEnd(SubSeq(cs, 1, Len(cs) - 1)) ELSE cs

\* String.prototype.trim
Trim(cs) == TrimEnd(TrimStart(cs))

\* a faulty buildSummary: the subtitle is not trimmed
buildSummary_NoTrim(module) ==
    IF TruthyText(module.summary) THEN module.summary
    ELSE LET subtitle == IF TruthyText(module.title)
                         THEN Second(Split(module.title.chars, Separator))
                         ELSE Absent
         IN  IF TruthyText(subtitle) THEN Str(FocusPrefix \o subtitle.chars)
             ELSE Str(FALLBACK_SUMMARY)

buildSummary(module) ==
    IF TruthyText(module.summary) THEN module.summary
    ELSE LET subtitle == IF TruthyText(module.title)
                         THEN Second(Split(module.title.chars, Separator))
                         ELSE Absent
         IN  IF TruthyText(subtitle) THEN Str(FocusPrefix \o Trim(subtitle.chars))
             ELSE Str(FALLBACK_SUMMARY)

RECURSIVE ReplaceAll(_, _, _)
\* String.prototype.replace with a global one-character pattern
ReplaceAll(cs, c, by) ==
    IF cs = <<>> THEN <<>>
    ELSE (IF Head(cs) = c THEN by ELSE <<Head(cs)>>) \o ReplaceAll(Tail(cs), c, by)

AmpEntity == <<"&", "a", "m", "p", ";">>
LtEntity == <<"&", "l", "t", ";">>
GtEntity == <<"&", "g", "t", ";">>
QuotEntity == <<"&", "q", "u", "o", "t", ";">>
AposEntity == <<"&", "#", "3", "9", ";">>

\* a faulty escapeHtml: the ampersand is replaced last
escapeHtml_AmpLast(input) ==
    IF input.type # "string" THEN <<>>
    ELSE LET r1 == ReplaceAll(input.chars, "<", LtEntity)
             r2 == ReplaceAll(r1, ">", GtEntity)
             r3 == ReplaceAll(r2, "\"", QuotEntity)
             r4 == ReplaceAll(r3, "'", AposEntity)
         IN  ReplaceAll(r4, "&", AmpEntity)

escapeHtml(input) ==
    IF input.type # "string" THEN <<>>
    ELSE LET r1 == ReplaceAll(input.chars, "&", AmpEntity)
             r2 == ReplaceAll(r1, "<", LtEntity)
             r3 == ReplaceAll(r2, ">", GtEntity)
             r4 == ReplaceAll(r3, "\"", QuotEntity)
         IN  ReplaceAll(r4, "'", AposEntity)

\* what renderWorkshopList writes into the button of one module: the two
\* texts put into its innerHTML, and its title attribute
WorkshopMarkup(module) ==
    [moduleId |-> module.id,
     strong |-> escapeHtml(module.title),
     small |-> escapeHtml(buildSummary(module)),
     title |-> IF TruthyText(module.summary) THEN module.summary.chars
               ELSE FALLBACK_SUMMARY]

SummaryChars == {"x", " ", "-"}
EscapeChars == {"a", "&", "<", ">", "\"", "'"}
Strings(chars, n) == UNION {[1..k -> chars] : k \in 0..n}

Titles ==
    {Absent} \cup {Str(cs) : cs \in Strings(SummaryChars, MaxTitleLen)
                                      \cup Strings(EscapeChars, MaxEscapeLen)}
Summaries == {Absent, Str(<<>>), Str(<<"s">>), Str(<<"<", "&">>)}

TextModule(title, summary) ==
    [id |-> "a", title |-> title, summary |-> summary, order |-> NoOrder,
     path |-> PathOf("a")]

TextInit ==
    /\ \E title \in Titles, summary \in Summaries :
          served = Http(200, "array", <<TextModule(title, summary)>>)
    /\ InitPage(SortUrls, {TRUE})

\* the manifest request settles: the buttons of #workshopList get their text
RenderText ==
    /\ pc = "fetching"
    /\ pc' = "ready"
    /\ workshopList' = [i \in DOMAIN served.items |-> WorkshopMarkup(served.items[i])]
    /\ Event("settled", "")
    /\ UNCHANGED <<served, workshopListEl, sidebarListEl, modules, activeId,
                   sidebarOpen, bodyClass, viewerHidden, frameSrc, ariaExpanded,
                   ariaHidden, sidebarList, errors, history, idx, listeners,
                   fetches, trace, ran, rt>>

TextNext ==
    \/ DOMContentLoaded
    \/ RenderText

TextSpec == TextInit /\ [][TextNext]_vars

----------------------------------------------------------------------------
(* Properties *)

Url == history[idx].url
ModuleParam == SearchGet(Url.query, "module")
KnownIds == {modules[i].id : i \in DOMAIN modules}
IsCall(e) == e.ev \in {"loadModule", "loadModuleNoPush"}

\* C1: in every reachable state, after any sequence of page-load, click,
\* Escape, sidebar-toggle and back/forward events, state.activeId is null or
\* the id of a module of state.modules
C1_ActiveIdIsKnown == activeId = NULL \/ activeId \in KnownIds

\* C1 happens: a module is active after a Back navigation
C1_Witness == last.ev = "back" /\ activeId \in Ids

\* C2: a call of loadModule with an id that no module of state.modules has,
\* with pushState true or false, leaves activeId, the viewer's hidden state,
\* the frame's src, sidebarOpen, the URL and the history stack unchanged
C2_UnknownIdIsNoOp ==
    [][(IsCall(last') /\ last'.arg \notin KnownIds)
        => UNCHANGED <<activeId, viewerHidden, frameSrc, sidebarOpen, bodyClass,
                       history, idx>>]_vars

\* C2 happens: loadModule was called with an unknown id while a module was
\* shown with the sidebar open
C2_Witness ==
    /\ IsCall(last) /\ last.arg \notin KnownIds
    /\ activeId \in Ids /\ sidebarOpen /\ Len(history) > 1

\* C3, as claimed: after every completed loadModule of a known module x the
\* URL's `module` parameter equals x, and after every completed showSummary,
\* however it was triggered, the URL has no `module` parameter
C3_Original ==
    /\ ran.op = "loadModule" => ModuleParam = ran.id
    /\ ran.op = "showSummary" => ~SearchHas(Url.query, "module")

\* C3, amended: after every completed loadModule of a known module x the
\* URL's `module` parameter equals x; after a showSummary triggered by Escape
\* the URL has no `module` parameter; a showSummary run by applyLocation (page
\* load, back/forward) pushes nothing and leaves the URL as it is, its
\* `module` parameter absent, empty or naming no known module
C3_UrlAfterSelection ==
    [][/\ ran'.op = "loadModule" => ModuleParam' = ran'.id
       /\ (ran'.op = "showSummary" /\ last'.ev = "keydown")
            => ~SearchHas(Url'.query, "module")
       /\ (ran'.op = "showSummary" /\ last'.ev # "keydown")
            => /\ history' = history
               /\ ~(Truthy(ModuleParam') /\ ModuleParam' \in KnownIds')]_vars

\* C3 happens: Back to an entry whose URL names an unknown module showed the
\* summary and the parameter is still there
C3_Witness ==
    /\ last.ev = "back" /\ ran.op = "showSummary"
    /\ ModuleParam = "z" /\ Len(history) > 1

\* C4: applying the location, on page load and on every popstate, pushes no
\* history entry and leaves the URL alone; if the `module` parameter names a
\* known module y then activeId = y and the viewer is shown, otherwise
\* activeId is null, the viewer is hidden and the frame's src is cleared
C4_ApplyLocation ==
    [][(\/ last'.ev \in {"back", "forward"}
        \/ last'.ev = "settled" /\ \E i \in DOMAIN trace' : trace'[i] = "applyLocation")
        => /\ history' = history
           /\ idx' = idx + (CASE last'.ev = "back" -> -1
                              [] last'.ev = "forward" -> 1
                              [] OTHER -> 0)
           /\ IF ModuleParam' \in KnownIds'
              THEN activeId' = ModuleParam' /\ ~viewerHidden'
              ELSE activeId' = NULL /\ viewerHidden' /\ frameSrc' = NULL]_vars

\* C4 happens: Forward to an entry that names a known module
C4_Witness ==
    /\ last.ev = "forward" /\ activeId \in Ids /\ ModuleParam = activeId
    /\ ~viewerHidden /\ Len(history) = idx

\* C5: after a successful init, from any selection p, a loadModule(x) by
\* click followed by Back restores activeId = p and a following Forward
\* restores activeId = x; likewise for a showSummary pushed by Escape
C5_HistoryRoundTrip ==
    /\ rt.phase = 2 => activeId = rt.p
    /\ rt.phase = 3 => activeId = rt.x

\* C5 happens: click on x while another module p was shown, Back, Forward
C5_Witness ==
    /\ rt.phase = 3 /\ rt.kind = "load"
    /\ rt.p \in Ids /\ rt.x \in Ids /\ rt.x # rt.p

IsEscape(e) == e.ev = "keydown" /\ e.arg = "Escape"

\* C6: Escape with the sidebar open closes the sidebar only; with the
\* sidebar closed and a module active it returns to the summary state and
\* pushes an entry whose URL has no `module` parameter; with the sidebar
\* closed and no module active it changes nothing.  So from sidebar open
\* and a module active the first press leaves the module active and the
\* second reaches the summary state
C6_EscapeOrder ==
    [][IsEscape(last')
        => IF sidebarOpen
           THEN /\ ~sidebarOpen'
                /\ ("viewer-active" \in bodyClass') = ("viewer-active" \in bodyClass)
                /\ UNCHANGED <<activeId, viewerHidden, frameSrc, history, idx>>
           ELSE IF activeId # NULL
           THEN /\ activeId' = NULL /\ viewerHidden'
                /\ "viewer-active" \notin bodyClass'
                /\ idx' = idx + 1 /\ Len(history') = idx'
                /\ SubSeq(history', 1, idx) = SubSeq(history, 1, idx)
                /\ ~SearchHas(history'[idx'].url.query, "module")
           ELSE UNCHANGED <<activeId, sidebarOpen, bodyClass, viewerHidden, frameSrc,
                            ariaExpanded, ariaHidden, workshopList, sidebarList,
                            history, idx>>]_vars

\* C6 happens: Escape left the viewer and pushed the summary entry
C6_Witness ==
    /\ IsEscape(last) /\ activeId = NULL /\ idx > 1
    /\ history[idx].state = EmptyState
    /\ SearchHas(history[idx - 1].url.query, "module")

ManifestFails ==
    /\ served.kind = "http"
    /\ \/ served.status \notin 200..299
       \/ served.json # "array"
       \/ Len(served.items) = 0

\* C7: when loading the manifest fails (a non-successful status, or a body
\* that is not a non-empty array), exactly one error message is displayed,
\* no list node is rendered on either surface, the fetch is not retried,
\* state.modules stays empty and activeId stays null in every later state
C7_FailedLoad ==
    ManifestFails
        => /\ modules = <<>> /\ workshopList = <<>> /\ sidebarList = <<>>
           /\ activeId = NULL
           /\ Len(errors) = (IF pc = "ready" THEN 1 ELSE 0)
           /\ fetches = (IF pc = "start" THEN 0 ELSE 1)

\* C7 happens: the load failed on a page opened at ?module=a, and Escape
\* was pressed afterwards
C7_Witness ==
    /\ ManifestFails /\ pc = "ready" /\ IsEscape(last)
    /\ Len(errors) = 1 /\ ModuleParam = "a"

SuccessTrace ==
    <<"sortModules", "renderWorkshopList", "renderSidebarList",
      "applyLocation", "addEventListener", "setSidebarOpen">>

NodeIds(nodes) == [i \in DOMAIN nodes |-> nodes[i].moduleId]
ModuleIds(ms) == [i \in DOMAIN ms |-> ms[i].id]
ActiveNodes(nodes) == {i \in DOMAIN nodes : nodes[i].isActive}

\* C8: until the manifest fetch has completed, nothing is rendered, the
\* location is not applied, no handler is registered and no click, keydown
\* or toggle changes activeId, sidebarOpen, the URL or the history; on
\* success init runs sort, render lists, apply location, register
\* handlers, close sidebar, in that order and in one piece: the lists show
\* the sorted modules, the module the location names is marked on the
\* rendered nodes, and the sidebar ends closed
C8_InitOrder ==
    [][/\ pc' # "ready"
            => /\ UNCHANGED <<activeId, sidebarOpen, bodyClass, history, idx,
                              modules, viewerHidden, frameSrc>>
               /\ trace' = <<>> /\ workshopList' = <<>> /\ sidebarList' = <<>>
               /\ listeners' = {} /\ ran' = Idle
       /\ (pc # "ready" /\ pc' = "ready" /\ modules' # <<>>)
            => /\ trace' = SuccessTrace
               /\ workshopListEl => NodeIds(workshopList') = ModuleIds(modules')
               /\ sidebarListEl => NodeIds(sidebarList') = ModuleIds(modules')
               /\ (activeId' # NULL /\ workshopListEl) => ActiveNodes(workshopList') # {}
               /\ (activeId' # NULL /\ sidebarListEl) => ActiveNodes(sidebarList') # {}
               /\ listeners' = {"toggle", "close", "keydown", "popstate"}
               /\ ~sidebarOpen'
       /\ pc = "ready" => trace' = trace /\ pc' = "ready"]_vars

\* C8 happens: init has finished on a page opened at a known module, with a
\* manifest the sort had to reorder
C8_Witness ==
    /\ pc = "ready" /\ last.ev = "settled" /\ trace = SuccessTrace
    /\ activeId \in Ids /\ modules # served.items
    /\ ActiveNodes(workshopList) # {} /\ ActiveNodes(sidebarList) # {}

\* C9: once init has finished, the body has class sidebar-open iff
\* sidebarOpen, the toggle's aria-expanded equals sidebarOpen and the
\* panel's aria-hidden equals its negation; the toggle button flips
\* sidebarOpen and the close control sets it to false
C9_SidebarMirror ==
    [][/\ pc' = "ready"
            => /\ ("sidebar-open" \in bodyClass') = sidebarOpen'
               /\ ariaExpanded' = (IF sidebarOpen' THEN "true" ELSE "false")
               /\ ariaHidden' = (IF sidebarOpen' THEN "false" ELSE "true")
       /\ (pc = "ready" /\ last'.ev = "toggle") => sidebarOpen' = ~sidebarOpen
       /\ (pc = "ready" /\ last'.ev = "close") => ~sidebarOpen']_vars

\* C9 happens: the toggle button has opened the sidebar over a shown module
C9_Witness ==
    /\ pc = "ready" /\ last.ev = "toggle" /\ sidebarOpen /\ activeId \in Ids
    /\ "sidebar-open" \in bodyClass /\ ariaExpanded = "true" /\ ariaHidden = "false"

HasOrder(m) == m.order.defined
SameOrder(a, b) ==
    /\ HasOrder(a) = HasOrder(b)
    /\ HasOrder(a) => a.order.value = b.order.value
TitlePlace(m) == LocaleRank(IF m.title = Undefined THEN "" ELSE m.title)
SameKeys(a, b) == SameOrder(a, b) /\ TitlePlace(a) = TitlePlace(b)
\* a sorts strictly before b
Precedes(a, b) ==
    \/ HasOrder(a) /\ ~HasOrder(b)
    \/ HasOrder(a) /\ HasOrder(b) /\ a.order.value < b.order.value
    \/ SameOrder(a, b) /\ TitlePlace(a) < TitlePlace(b)
PlaceIn(ms, id) == CHOOSE i \in DOMAIN ms : ms[i].id = id

\* C10: sortModules returns a permutation of the manifest ordered by `order`
\* ascending, a missing order last, then by `title` ascending (absent as
\* ""), modules equal on both keys in manifest order; both surfaces show
\* their nodes in this order
C10_SortOrder ==
    pc = "ready"
        => LET m == served.items
               r == modules
           IN  /\ Len(r) = Len(m)
               /\ \A i \in DOMAIN m : \E j \in DOMAIN r : r[j] = m[i]
               /\ \A i, j \in DOMAIN r : i < j => ~Precedes(r[j], r[i])
               /\ \A i, j \in DOMAIN r : (HasOrder(r[i]) /\ ~HasOrder(r[j])) => i < j
               /\ \A i, j \in DOMAIN r :
                    (i < j /\ SameKeys(r[i], r[j]))
                        => PlaceIn(m, r[i].id) < PlaceIn(m, r[j].id)
               /\ NodeIds(workshopList) = ModuleIds(r)
               /\ NodeIds(sidebarList) = ModuleIds(r)

\* C10 happens: three modules, reordered by the sort, two of them equal on
\* both keys and one without an order
C10_Witness ==
    /\ pc = "ready" /\ Len(modules) = 3 /\ modules # served.items
    /\ \E i, j \in DOMAIN modules : i < j /\ SameKeys(modules[i], modules[j])
    /\ \E i, j \in DOMAIN modules : HasOrder(modules[i]) /\ ~HasOrder(modules[j])
    /\ NodeIds(workshopList) = ModuleIds(modules)

TextNodes == {i \in DOMAIN workshopList : pc = "ready"}
Entity(c) ==
    CASE c = "&" -> AmpEntity
      [] c = "<" -> LtEntity
      [] c = ">" -> GtEntity
      [] c = "\"" -> QuotEntity
      [] c = "'" -> AposEntity
      [] OTHER -> <<c>>
RECURSIVE Escaped(_)
\* cs with every character replaced by its entity, if it has one
Escaped(cs) == IF cs = <<>> THEN <<>> ELSE Entity(Head(cs)) \o Escaped(Tail(cs))

SepAt(cs) == {i \in 1..Len(cs) : StartsWith(cs, i, Separator)}
Least(S) == CHOOSE i \in S : \A j \in S : i <= j
HasSeparator(v) == v.type = "string" /\ SepAt(v.chars) # {}
\* what stands between the first separator and the next one, or the end
Segment(cs) ==
    LET from == Least(SepAt(cs)) + Len(Separator)
        later == {i \in SepAt(cs) : i >= from}
    IN  SubSeq(cs, from, IF later = {} THEN Len(cs) ELSE Least(later) - 1)

\* C11, as claimed: a module with a summary shows it verbatim; otherwise, if
\* its title contains " - ", it shows "Focus: " followed by the trimmed
\* segment after the first separator; otherwise the fallback text
C11_Original ==
    \A i \in TextNodes :
        LET m == served.items[i]
            shown == IF TruthyText(m.summary) THEN m.summary.chars
                     ELSE IF HasSeparator(m.title)
                     THEN FocusPrefix \o Trim(Segment(m.title.chars))
                     ELSE FALLBACK_SUMMARY
        IN  workshopList[i].small = Escaped(shown)

\* C11, amended: a module with a non-empty summary shows it verbatim;
\* otherwise, if its title contains " - " and what stands between the first
\* separator and the next one (or the end of the title) is not empty, it
\* shows "Focus: " followed by that segment trimmed; otherwise, an empty
\* segment included, it shows the fallback text
C11_SummaryDerivation ==
    \A i \in TextNodes :
        LET m == served.items[i]
            shown == IF TruthyText(m.summary) THEN m.summary.chars
                     ELSE IF HasSeparator(m.title) /\ Segment(m.title.chars) # <<>>
                     THEN FocusPrefix \o Trim(Segment(m.title.chars))
                     ELSE FALLBACK_SUMMARY
        IN  workshopList[i].small = Escaped(shown)

\* C11 happens: a module without a summary whose title has two separators
\* shows "Focus: " and what stands between them
C11_Witness ==
    \E i \in TextNodes :
        LET m == served.items[i]
        IN  /\ m.summary = Absent /\ HasSeparator(m.title)
            /\ Cardinality(SepAt(m.title.chars)) = 2
            /\ Segment(m.title.chars) = <<"x">>
            /\ workshopList[i].small = FocusPrefix \o <<"x">>

\* C12: the text put as markup into a primary-list node is the title with
\* each of & < > " ' replaced by its entity, so it holds no raw < > " or '
\* and each of its & starts an entity; a title that is not a string is
\* put in as the empty string
C12_TitleEscaped ==
    \A i \in TextNodes :
        LET title == served.items[i].title
            out == workshopList[i].strong
        IN  /\ out = (IF title.type = "string" THEN Escaped(title.chars) ELSE <<>>)
            /\ \A j \in DOMAIN out : out[j] \notin {"<", ">", "\"", "'"}
            /\ \A j \in DOMAIN out :
                  out[j] = "&"
                    => \E e \in {AmpEntity, LtEntity, GtEntity, QuotEntity, AposEntity} :
                          StartsWith(out, j, e)

\* C12 happens: a title with an ampersand, an angle bracket and a quote
C12_Witness ==
    \E i \in TextNodes :
        /\ served.items[i].title = Str(<<"<", "&", "'">>)
        /\ workshopList[i].strong = LtEntity \o AmpEntity \o AposEntity

Loaded == pc = "ready" /\ modules # <<>>

\* C13: in every state after a successful init, activeId = x (not null) iff
\* the URL's `module` parameter equals x and x is the id of a known module;
\* activeId is null exactly when the parameter is absent or names no known
\* module
C13_UrlMirror ==
    Loaded => activeId = (IF ModuleParam \in KnownIds THEN ModuleParam ELSE NULL)

\* C13 happens: a sidebar click moved the selection from one module to
\* another and the URL followed
C13_Witness ==
    /\ Loaded /\ last.ev = "sidebar" /\ idx > 1
    /\ activeId \in Ids /\ ModuleParam = activeId
    /\ SearchGet(history[idx - 1].url.query, "module") \in KnownIds \ {activeId}

\* C14: in every state after a successful init, the viewer is visible iff
\* the body has class viewer-active iff activeId is not null, and the
\* frame's src is the path of the active module, or absent when activeId is
\* null
C14_ViewerFrame ==
    Loaded
        => /\ (~viewerHidden) = ("viewer-active" \in bodyClass)
           /\ ("viewer-active" \in bodyClass) = (activeId # NULL)
           /\ frameSrc = (IF activeId = NULL THEN NULL
                          ELSE modules[FindModule(Cur, activeId)].path)

\* C14 happens: Escape has left the viewer of a shown module: the viewer is
\* hidden, the body class is gone and the frame has no src
C14_Witness ==
    /\ Loaded /\ IsEscape(last) /\ ran.op = "showSummary"
    /\ viewerHidden /\ frameSrc = NULL /\ activeId = NULL
    /\ "viewer-active" \notin bodyClass /\ idx > 1
    /\ SearchGet(history[idx - 1].url.query, "module") \in KnownIds

AriaNodes(nodes) == {i \in DOMAIN nodes : nodes[i].ariaCurrent}
KeyNodes(nodes, id) == {i \in DOMAIN nodes : nodes[i].moduleId = id}

\* C15: after every loadModule of a known id, on each rendered surface
\* exactly one node is marked is-active, the node whose key equals activeId,
\* and aria-current is set on exactly that node of the sidebar and on no
\* node of the primary list; after every showSummary no node on any surface
\* has is-active or aria-current
C15_ActiveMarking ==
    /\ ran.op = "loadModule"
        => /\ \A nodes \in {workshopList, sidebarList} :
                nodes # <<>>
                    => /\ Cardinality(ActiveNodes(nodes)) = 1
                       /\ ActiveNodes(nodes) = KeyNodes(nodes, activeId)
           /\ AriaNodes(sidebarList) = KeyNodes(sidebarList, activeId)
           /\ AriaNodes(workshopList) = {}
    /\ ran.op = "showSummary"
        => \A nodes \in {workshopList, sidebarList} :
                ActiveNodes(nodes) = {} /\ AriaNodes(nodes) = {}

\* C15 happens: a primary-list click moved the marking from one module to
\* another on two surfaces of two nodes each
C15_Witness ==
    /\ last.ev = "workshop" /\ ran.op = "loadModule"
    /\ Len(workshopList) = 2 /\ Len(sidebarList) = 2
    /\ rt.p \in Ids /\ rt.p # activeId
    /\ Cardinality(ActiveNodes(workshopList)) = 1
    /\ AriaNodes(sidebarList) = KeyNodes(sidebarList, activeId)

IsClick(e) == e.ev \in {"workshop", "sidebar"}
Others(q) == SelectSeq(q, LAMBDA p : p.k # "module")
Occurrences(q) == Cardinality({j \in DOMAIN q : q[j].k = "module"})

C17_OnlySelectionWrites ==
    [][/\ (last'.ev \in {"toggle", "close"} \/ (IsEscape(last') /\ sidebarOpen))
            => /\ UNCHANGED <<activeId, viewerHidden, frameSrc, history, idx,
                              modules, workshopList, sidebarList, errors>>
               /\ bodyClass' \ {"sidebar-open"} = bodyClass \ {"sidebar-open"}
               /\ ran' = Idle
       /\ activeId' # activeId => ran'.op \in {"loadModule", "showSummary"}]_vars

\* C17 happens: Escape was pressed over a shown module and only closed the
\* sidebar
C17_Witness ==
    /\ IsEscape(last) /\ pc = "ready" /\ activeId \in Ids /\ ~viewerHidden
    /\ ~sidebarOpen /\ ariaExpanded = "false" /\ ran = Idle /\ idx > 1

Pushed == last'.ev \notin {"back", "forward"} /\ <<history, idx>>' # <<history, idx>>

\* C19: an entry pushed by loadModule or showSummary has the path of the URL
\* before the push and the same values for every query parameter other
\* than `module`; showSummary asked to push pushes only if the URL has a
\* `module` parameter
C19_PushTouchesModuleOnly ==
    [][/\ Pushed
            => /\ idx' = idx + 1 /\ Len(history') = idx'
               /\ Url'.pathname = Url.pathname
               /\ Others(Url'.query) = Others(Url.query)
       /\ (Pushed /\ ran'.op = "showSummary") => SearchHas(Url.query, "module")
       /\ (IsEscape(last') /\ ran'.op = "showSummary" /\ ~SearchHas(Url.query, "module"))
            => UNCHANGED <<history, idx>>]_vars

\* C19 happens: a click has pushed ?lang=en&module=a from ?lang=en; later,
\* with a module loaded without a push at ?lang=en, Escape showed the
\* summary and pushed nothing
C19_Witness ==
    /\ IsEscape(last) /\ ran.op = "showSummary" /\ idx = 1 /\ Len(history) = 2
    /\ Url.query = <<Param("lang", "en")>>
    /\ history[2].url.query = <<Param("lang", "en"), Param("module", "a")>>
    /\ history[2].url.pathname = Url.pathname

====
